---- MODULE Spec2Model ----
(***************************************************************************)
(* Rotary encoder / push button decoder (rotenc.h, rotenc.cpp) of the      *)
(* neopixel lamp, on an 8-bit AVR: one foreground context that calls the   *)
(* public methods statement by statement, and the pin change interrupt     *)
(* that runs both handlers whenever it is pending and interrupts are on.   *)
(***************************************************************************)
EXTENDS Integers, Sequences, FiniteSets, TLC

(***************************************************************************)
(* Program constants                                                       *)
(***************************************************************************)
HW_ROTENC_A_BIT == 2
HW_ROTENC_B_BIT == 3
HW_ROTENC_BTN_BIT == 4
HW_ROTENC_A_INT == 2
HW_ROTENC_B_INT == 3
HW_ROTENC_BTN_INT == 4
HW_ROTENC_PCIFR == 2
HW_ROTENC_PCICR == 2
HW_ROTENC_CYCLES_PER_DETENT == 4
HW_BUTTON_SHORT_CLICK_MIN_TIME == 20
HW_BUTTON_LONG_CLICK_MIN_TIME == 500
HW_NEOPIXEL_BIT == 5
HW_NEOPIXEL_ROWS == 8
HW_NEOPIXEL_COLS == 4
HW_NEOPIXEL_NUMBER == HW_NEOPIXEL_ROWS * HW_NEOPIXEL_COLS
HW_NEOPIXEL_T1H == 900
HW_NEOPIXEL_T1L == 600
HW_NEOPIXEL_T0H == 400
HW_NEOPIXEL_T0L == 900
HW_NEOPIXEL_RES == 6000
nanosecPerMiscrosec == 1000
INT16_T_MIN == -32768
INT16_T_MAX == 32767
Uint8Mod == 256
Uint16Mod == 65536
fourLowestBits == 15
\* (a table that counts the change of both lines from 00 to 11)
statesTable_glitch == <<0, -1, 1, 1, 1, 0, 0, -1, -1, 0, 0, 1, 0, 1, -1, 0>>

statesTable == <<0, -1, 1, 0, 1, 0, 0, -1, -1, 0, 0, 1, 0, 1, -1, 0>>

BUTTON_NONE == "BUTTON_NONE"
BUTTON_SHORT_CLICK == "BUTTON_SHORT_CLICK"
BUTTON_LONG_CLICK == "BUTTON_LONG_CLICK"
ButtonState == {BUTTON_NONE, BUTTON_SHORT_CLICK, BUTTON_LONG_CLICK}

(***************************************************************************)
(* Bounds of the model                                                     *)
(***************************************************************************)
\* encoder line changes are offered until this many interrupts were served
\* since the last successful setCounter: where the counter is followed along
\* its range, where setCounter is called with the whole range of arguments,
\* and where the button is followed
MaxIrq == 5
MaxIrqRange == 1
MaxIrqButton == 2

(***************************************************************************)
(* C arithmetic                                                            *)
(***************************************************************************)
\* C's integer division truncates towards zero (the divisor is positive here)
TruncDiv(a, b) == IF a >= 0 THEN a \div b ELSE -((-a) \div b)

minLimitRange == TruncDiv(INT16_T_MIN, HW_ROTENC_CYCLES_PER_DETENT) + 1
maxLimitRange == TruncDiv(INT16_T_MAX, HW_ROTENC_CYCLES_PER_DETENT) - 1

InInt16(x) == INT16_T_MIN <= x /\ x <= INT16_T_MAX

\* x clamped into [lo, hi]
Clamped(x, lo, hi) == IF x < lo THEN lo ELSE IF x > hi THEN hi ELSE x

\* the two's complement value a 16-bit register holds after an overflow
Wrap16(x) == ((x - INT16_T_MIN) % (INT16_T_MAX - INT16_T_MIN + 1)) + INT16_T_MIN

\* int is 16 bits wide on the AVR: a result outside it is signed overflow,
\* undefined behaviour; the build either keeps the low 16 bits of the result
\* or, having assumed that no overflow happens, leaves the operand's sign
\* and saturates.  Both outcomes are possible.
Int16Result(x) ==
  IF InInt16(x) THEN {x}
  ELSE {Wrap16(x), IF x > INT16_T_MAX THEN INT16_T_MAX ELSE INT16_T_MIN}

RECURSIVE BitAnd(_, _)
BitAnd(x, y) ==
  IF x = 0 \/ y = 0 THEN 0
  ELSE (x % 2) * (y % 2) + 2 * BitAnd(x \div 2, y \div 2)

RECURSIVE BitOr(_, _)
BitOr(x, y) ==
  IF x = 0 THEN y
  ELSE IF y = 0 THEN x
  ELSE (IF x % 2 = 1 \/ y % 2 = 1 THEN 1 ELSE 0) + 2 * BitOr(x \div 2, y \div 2)

bitRead(value, b) == (value \div (2 ^ b)) % 2
bitSet(value, b) == BitOr(value, 2 ^ b)
bitClear(value, b) == value - bitRead(value, b) * (2 ^ b)

\* pgm_read_byte returns the table entry as an unsigned byte
pgm_read_byte(table, index) == table[index + 1] % Uint8Mod
\* ... which the assignment to int8_t increment converts back
ToInt8(b) == IF b >= 128 THEN b - Uint8Mod ELSE b

(***************************************************************************)
(* State                                                                   *)
(***************************************************************************)
VARIABLES
  counter, counterMinLimit, counterMaxLimit, counterWrap, buttonState,
  oldState, oldButtonState, buttonPressTime,
  PIND, DDRD, PORTD, PCMSK2, PCIFR, PCICR, SREG_I, millis,
  pc, local, args, ret, nIrq,
  detentSub, detentExpect, clickPending, clickExpected,
  DDRB, sent, latch, neo, entryI

rotencVars == <<counter, counterMinLimit, counterMaxLimit, counterWrap>>
buttonVars == <<buttonState, oldButtonState, buttonPressTime>>
regVars == <<DDRD, PORTD, PCMSK2, PCICR>>
callVars == <<pc, local, args, ret>>
detentVars == <<detentSub, detentExpect>>
clickVars == <<clickPending, clickExpected>>
neoVars == <<DDRB, sent, latch, neo>>
vars == <<counter, counterMinLimit, counterMaxLimit, counterWrap, buttonState,
          oldState, oldButtonState, buttonPressTime,
          PIND, DDRD, PORTD, PCMSK2, PCIFR, PCICR, SREG_I, millis,
          pc, local, args, ret, nIrq, detentSub, detentExpect,
          clickPending, clickExpected, DDRB, sent, latch, neo, entryI>>

\* the locals of the method the foreground is in
NoLocal == [counterValue |-> 0, minLimit |-> 0, maxLimit |-> 0, wrap |-> FALSE,
            retVal |-> 0, tempState |-> BUTTON_NONE]
\* the arguments of the last setCounter call that passed its range check
NoArgs == [set |-> FALSE, value |-> 0, minLimit |-> 0, maxLimit |-> 0, wrap |-> FALSE]
\* what the last completed call returned
NoRet == [op |-> "none", val |-> 0]
\* the arguments and the loop variables of setUniformColour, sendRgb, sendByte
NoNeo == [r |-> 0, g |-> 0, b |-> 0, i |-> 0, byte |-> 0, bit |-> 0, input |-> 0]

\* the arguments setCounter is called with: the ends of int16_t, the upper end
\* of the limit range and its neighbour, and a range around zero
LimitSamples == {INT16_T_MIN, -1, 1, maxLimitRange, maxLimitRange + 1, INT16_T_MAX}
LimitPairs == LimitSamples \X LimitSamples
ValueSamples == {0, INT16_T_MAX}
\* ... and where the counter is followed along its range: a range of two
\* detents around zero, its reverse, and a range above the limit range
NarrowLimitPairs == {<<-1, 1>>, <<1, -1>>, <<maxLimitRange + 1, maxLimitRange + 2>>}
NarrowValueSamples == {0, INT16_T_MAX}

\* a uint32_t, as its <<high, low>> 16-bit halves
Uint32(n) == <<(n \div Uint16Mod) % Uint16Mod, n % Uint16Mod>>

\* a - b in uint32_t arithmetic (modulo 2^32)
Sub32(a, b) ==
  LET borrow == IF a[2] < b[2] THEN 1 ELSE 0
  IN  <<(a[1] - b[1] - borrow) % Uint16Mod, (a[2] - b[2]) % Uint16Mod>>

\* a > n, for a uint32_t a and a constant n below 2^16
Gt32(a, n) == a[1] > 0 \/ a[2] > n

\* the instants millis() is read at: around both click thresholds
TimePoints ==
  {Uint32(0), Uint32(HW_BUTTON_SHORT_CLICK_MIN_TIME),
   Uint32(HW_BUTTON_SHORT_CLICK_MIN_TIME + 1),
   Uint32(HW_BUTTON_LONG_CLICK_MIN_TIME), Uint32(HW_BUTTON_LONG_CLICK_MIN_TIME + 1)}

\* the levels the three input pins of port D can have
PinLevels ==
  {a * (2 ^ HW_ROTENC_A_BIT) + b * (2 ^ HW_ROTENC_B_BIT) + s * (2 ^ HW_ROTENC_BTN_BIT) :
     a \in {0, 1}, b \in {0, 1}, s \in {0, 1}}

(***************************************************************************)
(* RotEnc::RotEnc and the handlers' static variables; the registers have   *)
(* their reset values, the pins any level                                  *)
(***************************************************************************)
RotEnc ==
  /\ counter = 0
  /\ counterMinLimit = minLimitRange
  /\ counterMaxLimit = maxLimitRange
  /\ counterWrap = FALSE
  /\ buttonState = BUTTON_NONE

Init ==
  /\ RotEnc
  /\ oldState = 0
  /\ oldButtonState = TRUE
  /\ buttonPressTime = Uint32(0)
  /\ PIND \in PinLevels
  /\ DDRD = 0 /\ PORTD = 0 /\ PCMSK2 = 0 /\ PCIFR = 0 /\ PCICR = 0
  /\ SREG_I = TRUE
  /\ millis = Uint32(0)
  /\ pc = "idle" /\ local = NoLocal /\ args = NoArgs /\ ret = NoRet
  /\ nIrq = 0
  /\ detentSub = 0 /\ detentExpect = 0
  /\ clickPending = BUTTON_NONE /\ clickExpected = BUTTON_NONE
  /\ DDRB = 0 /\ sent = <<>> /\ latch = 0 /\ neo = NoNeo
  /\ entryI = TRUE

\* all three lines high, as the pull-ups hold them while the contacts are open
LinesHigh == (2 ^ HW_ROTENC_A_BIT) + (2 ^ HW_ROTENC_B_BIT) + (2 ^ HW_ROTENC_BTN_BIT)

InitLinesHigh == Init /\ PIND = LinesHigh

\* lines A and B low, as the decoder's oldState = 0 takes them to be
InitDetent == Init /\ PIND = 2 ^ HW_ROTENC_BTN_BIT

(***************************************************************************)
(* RotEnc::setCounter (rotenc.cpp 60-73)                                   *)
(***************************************************************************)
\* (a range check that lets an empty range minLimit = maxLimit through)
RangeInvalid_strict(minLimit, maxLimit) == minLimit > maxLimit

RangeInvalid(minLimit, maxLimit) == minLimit >= maxLimit

ClampMinLimit(minLimit) == IF minLimit < minLimitRange THEN minLimitRange ELSE minLimit

ClampMaxLimit(maxLimit) == IF maxLimit > maxLimitRange THEN maxLimitRange ELSE maxLimit

\* (a clamping that forgets the lower limit)
ClampCounterValue_noMin(counterValue, minLimit, maxLimit) ==
  IF counterValue > maxLimit THEN maxLimit ELSE counterValue

ClampCounterValue(counterValue, minLimit, maxLimit) ==
  LET v == IF counterValue > maxLimit THEN maxLimit ELSE counterValue
  IN  IF v < minLimit THEN minLimit ELSE v

\* x * HW_ROTENC_CYCLES_PER_DETENT, computed in int and stored in an int16_t
ScaleUp(x) == Int16Result(x * HW_ROTENC_CYCLES_PER_DETENT)

\* the call, the range check and the clamping of the parameters (60-65), then
\* noInterrupts() (66); the parameters are the method's own copies
setCounter(counterValue, minLimit, maxLimit, wrap) ==
  /\ pc = "idle"
  /\ entryI' = SREG_I
  /\ IF RangeInvalid(minLimit, maxLimit)
     THEN /\ ret' = [op |-> "setCounter", val |-> FALSE]
          /\ UNCHANGED <<pc, local, args, SREG_I>>
     ELSE /\ local' = [NoLocal EXCEPT
                         !.minLimit = ClampMinLimit(minLimit),
                         !.maxLimit = ClampMaxLimit(maxLimit),
                         !.counterValue = ClampCounterValue(counterValue,
                                            ClampMinLimit(minLimit), ClampMaxLimit(maxLimit)),
                         !.wrap = wrap]
          /\ args' = [set |-> TRUE, value |-> counterValue, minLimit |-> minLimit,
                      maxLimit |-> maxLimit, wrap |-> wrap]
          /\ SREG_I' = FALSE
          /\ pc' = "setCounter_counter"
          /\ UNCHANGED ret
  /\ UNCHANGED <<rotencVars, buttonVars, oldState, regVars, PIND, PCIFR, millis,
                 nIrq, detentVars, clickVars, neoVars>>

\* counter = counterValue * HW_ROTENC_CYCLES_PER_DETENT (67)
setCounter_counter ==
  /\ pc = "setCounter_counter"
  /\ counter' \in ScaleUp(local.counterValue)
  /\ pc' = "setCounter_counterMinLimit"
  /\ UNCHANGED <<counterMinLimit, counterMaxLimit, counterWrap, buttonVars, oldState,
                 regVars, PIND, PCIFR, millis, SREG_I, local, args, ret, nIrq, detentVars, clickVars, neoVars, entryI>>

\* counterMinLimit = minLimit * HW_ROTENC_CYCLES_PER_DETENT (68)
setCounter_counterMinLimit ==
  /\ pc = "setCounter_counterMinLimit"
  /\ counterMinLimit' \in ScaleUp(local.minLimit)
  /\ pc' = "setCounter_counterMaxLimit"
  /\ UNCHANGED <<counter, counterMaxLimit, counterWrap, buttonVars, oldState,
                 regVars, PIND, PCIFR, millis, SREG_I, local, args, ret, nIrq, detentVars, clickVars, neoVars, entryI>>

\* counterMaxLimit = maxLimit * HW_ROTENC_CYCLES_PER_DETENT (69)
setCounter_counterMaxLimit ==
  /\ pc = "setCounter_counterMaxLimit"
  /\ counterMaxLimit' \in ScaleUp(local.maxLimit)
  /\ pc' = "setCounter_counterWrap"
  /\ UNCHANGED <<counter, counterMinLimit, counterWrap, buttonVars, oldState,
                 regVars, PIND, PCIFR, millis, SREG_I, local, args, ret, nIrq, detentVars, clickVars, neoVars, entryI>>

\* counterWrap = wrap (70)
setCounter_counterWrap ==
  /\ pc = "setCounter_counterWrap"
  /\ counterWrap' = local.wrap
  /\ pc' = "setCounter_interrupts"
  /\ UNCHANGED <<counter, counterMinLimit, counterMaxLimit, buttonVars, oldState,
                 regVars, PIND, PCIFR, millis, SREG_I, local, args, ret, nIrq, detentVars, clickVars, neoVars, entryI>>

\* interrupts(); return (true) (71-72).  The position the detents are counted
\* from restarts at the value that was set.
setCounter_interrupts ==
  /\ pc = "setCounter_interrupts"
  /\ SREG_I' = TRUE
  /\ ret' = [op |-> "setCounter", val |-> TRUE]
  /\ pc' = "idle"
  /\ local' = NoLocal
  /\ nIrq' = 0
  /\ detentSub' = 0
  /\ detentExpect' = Clamped(args.value, args.minLimit, args.maxLimit)
  /\ UNCHANGED <<rotencVars, buttonVars, oldState, regVars, PIND, PCIFR, millis, args,
                 clickVars, neoVars, entryI>>

(***************************************************************************)
(* RotEnc::getCounter (rotenc.h 92-97)                                     *)
(***************************************************************************)
\* counter / HW_ROTENC_CYCLES_PER_DETENT
ScaleDown(c) == TruncDiv(c, HW_ROTENC_CYCLES_PER_DETENT)

\* the call and noInterrupts() (92-93)
getCounter ==
  /\ pc = "idle"
  /\ entryI' = SREG_I
  /\ SREG_I' = FALSE
  /\ pc' = "getCounter_retVal"
  /\ UNCHANGED <<rotencVars, buttonVars, oldState, regVars, PIND, PCIFR, millis,
                 local, args, ret, nIrq, detentVars, clickVars, neoVars>>

\* int16_t retVal = counter / HW_ROTENC_CYCLES_PER_DETENT (94)
getCounter_retVal ==
  /\ pc = "getCounter_retVal"
  /\ local' = [NoLocal EXCEPT !.retVal = ScaleDown(counter)]
  /\ pc' = "getCounter_interrupts"
  /\ UNCHANGED <<rotencVars, buttonVars, oldState, regVars, PIND, PCIFR, millis,
                 SREG_I, args, ret, nIrq, detentVars, clickVars, neoVars, entryI>>

\* (a return that restores the interrupt flag found on entry)
getCounter_restore ==
  /\ pc = "getCounter_interrupts"
  /\ SREG_I' = entryI
  /\ ret' = [op |-> "getCounter", val |-> local.retVal]
  /\ pc' = "idle"
  /\ local' = NoLocal
  /\ UNCHANGED <<rotencVars, buttonVars, oldState, regVars, PIND, PCIFR, millis,
                 args, nIrq, detentVars, clickVars, neoVars, entryI>>

\* interrupts(); return (retVal) (95-96)
getCounter_interrupts ==
  /\ pc = "getCounter_interrupts"
  /\ SREG_I' = TRUE
  /\ ret' = [op |-> "getCounter", val |-> local.retVal]
  /\ pc' = "idle"
  /\ local' = NoLocal
  /\ UNCHANGED <<rotencVars, buttonVars, oldState, regVars, PIND, PCIFR, millis,
                 args, nIrq, detentVars, clickVars, neoVars, entryI>>

(***************************************************************************)
(* RotEnc::encoderInterruptHandler (rotenc.h 102-125)                      *)
(***************************************************************************)
\* (bitRead(PORT, B_BIT) << 1) | bitRead(PORT, A_BIT)
EncoderSample(port) ==
  BitOr(bitRead(port, HW_ROTENC_B_BIT) * 2, bitRead(port, HW_ROTENC_A_BIT))

\* oldState <<= 2; oldState |= sample; oldState &= fourLowestBits (uint8_t)
NextOldState(os, port) ==
  BitAnd(BitOr((os * 4) % Uint8Mod, EncoderSample(port)), fourLowestBits)

\* int8_t increment = pgm_read_byte(&statesTable[oldState])
Increment(os) == ToInt8(pgm_read_byte(statesTable, os))

\* (a rule at counterMaxLimit that leaves the increment as it is)
AtMaxLimit_keepIncrement(c, increment) ==
  IF c = counterMaxLimit /\ increment > 0
  THEN <<IF counterWrap THEN counterMinLimit ELSE counterMaxLimit, increment>>
  ELSE <<c, increment>>

\* the rule at counterMaxLimit (110-116): the new <<counter, increment>>
AtMaxLimit(c, increment) ==
  IF c = counterMaxLimit /\ increment > 0
  THEN <<IF counterWrap THEN counterMinLimit ELSE counterMaxLimit, 0>>
  ELSE <<c, increment>>

\* the rule at counterMinLimit (117-123)
AtMinLimit(c, increment) ==
  IF c = counterMinLimit /\ increment < 0
  THEN <<IF counterWrap THEN counterMaxLimit ELSE counterMinLimit, 0>>
  ELSE <<c, increment>>

\* <<counter, increment>> when line 124 is reached
LimitRule(c, increment) ==
  LET m == AtMaxLimit(c, increment) IN AtMinLimit(m[1], m[2])

encoderInterruptHandler ==
  LET os == NextOldState(oldState, PIND)
      r  == LimitRule(counter, Increment(os))
  IN  /\ oldState' = os
      /\ counter' \in Int16Result(r[1] + r[2])
      /\ UNCHANGED <<counterMinLimit, counterMaxLimit, counterWrap>>

\* the values counter can have after an invocation that found it at c and
\* made oldState os (lines 109-124)
HandlerCounter(c, os) ==
  LET r == LimitRule(c, Increment(os)) IN Int16Result(r[1] + r[2])

(***************************************************************************)
(* RotEnc::buttonInterruptHandler (rotenc.h 130-143)                       *)
(***************************************************************************)
\* uint32_t buttonHoldTime = millis() - buttonPressTime
HoldTime(now, pressTime) == Sub32(now, pressTime)

\* (a classification that counts a hold of exactly the short threshold)
ClickState_inclusive(buttonHoldTime, state) ==
  LET s == IF Gt32(buttonHoldTime, HW_BUTTON_SHORT_CLICK_MIN_TIME - 1)
           THEN BUTTON_SHORT_CLICK ELSE state
  IN  IF Gt32(buttonHoldTime, HW_BUTTON_LONG_CLICK_MIN_TIME) THEN BUTTON_LONG_CLICK ELSE s

\* lines 139-140
ClickState(buttonHoldTime, state) ==
  LET s == IF Gt32(buttonHoldTime, HW_BUTTON_SHORT_CLICK_MIN_TIME)
           THEN BUTTON_SHORT_CLICK ELSE state
  IN  IF Gt32(buttonHoldTime, HW_BUTTON_LONG_CLICK_MIN_TIME) THEN BUTTON_LONG_CLICK ELSE s

\* (a release read from line A instead of the button's line)
ButtonReleased_lineA(port, old) == bitRead(port, HW_ROTENC_A_BIT) # 0 /\ ~old

ButtonPressed(port, old) == bitRead(port, HW_ROTENC_BTN_BIT) = 0 /\ old
ButtonReleased(port, old) == bitRead(port, HW_ROTENC_BTN_BIT) # 0 /\ ~old

buttonInterruptHandler ==
  LET pressTime == IF ButtonPressed(PIND, oldButtonState) THEN millis ELSE buttonPressTime
  IN  /\ buttonPressTime' = pressTime
      /\ buttonState' = IF ButtonReleased(PIND, oldButtonState)
                        THEN ClickState(HoldTime(millis, pressTime), buttonState)
                        ELSE buttonState
      /\ oldButtonState' = (bitRead(PIND, HW_ROTENC_BTN_BIT) # 0)

(***************************************************************************)
(* ISR (HW_ROTENC_INTVECT): both handlers, run when the pin change         *)
(* interrupt is pending, enabled, and interrupts are on; the flag is       *)
(* cleared when the routine is entered, and no interrupt is served inside  *)
(***************************************************************************)
\* The click a caller is owed after this invocation: a release held longer
\* than the short threshold is a click, long if held longer than the long
\* threshold; anything else leaves what was owed.
ClickOwed(owed) ==
  IF ButtonReleased(PIND, oldButtonState)
     /\ Gt32(HoldTime(millis, buttonPressTime), HW_BUTTON_SHORT_CLICK_MIN_TIME)
  THEN IF Gt32(HoldTime(millis, buttonPressTime), HW_BUTTON_LONG_CLICK_MIN_TIME)
       THEN BUTTON_LONG_CLICK ELSE BUTTON_SHORT_CLICK
  ELSE owed

InterruptPending ==
  /\ SREG_I
  /\ bitRead(PCICR, HW_ROTENC_PCICR) = 1
  /\ bitRead(PCIFR, HW_ROTENC_PCIFR) = 1

ISR ==
  /\ InterruptPending
  /\ PCIFR' = bitClear(PCIFR, HW_ROTENC_PCIFR)
  /\ encoderInterruptHandler
  /\ buttonInterruptHandler
  /\ nIrq' = IF nIrq < MaxIrq THEN nIrq + 1 ELSE nIrq
  /\ clickPending' = ClickOwed(clickPending)
  /\ UNCHANGED <<regVars, PIND, millis, SREG_I, callVars, detentVars, clickExpected,
                 neoVars, entryI>>

(***************************************************************************)
(* RotEnc::getButtonState (rotenc.h 153-159)                               *)
(***************************************************************************)
\* (a call that leaves the interrupts on)
getButtonState_interruptsOn ==
  /\ pc = "idle"
  /\ pc' = "getButtonState_tempState"
  /\ UNCHANGED <<rotencVars, buttonVars, oldState, regVars, PIND, PCIFR, millis, SREG_I,
                 local, args, ret, nIrq, detentVars, clickVars, neoVars, entryI>>

\* the call and noInterrupts() (153-154)
getButtonState ==
  /\ pc = "idle"
  /\ entryI' = SREG_I
  /\ SREG_I' = FALSE
  /\ pc' = "getButtonState_tempState"
  /\ UNCHANGED <<rotencVars, buttonVars, oldState, regVars, PIND, PCIFR, millis,
                 local, args, ret, nIrq, detentVars, clickVars, neoVars>>

\* ButtonState tempState = buttonState (155); the click owed is what this
\* call has to return, and nothing is owed after it
getButtonState_tempState ==
  /\ pc = "getButtonState_tempState"
  /\ local' = [NoLocal EXCEPT !.tempState = buttonState]
  /\ pc' = "getButtonState_buttonState"
  /\ clickExpected' = clickPending
  /\ clickPending' = BUTTON_NONE
  /\ UNCHANGED <<rotencVars, buttonVars, oldState, regVars, PIND, PCIFR, millis,
                 SREG_I, args, ret, nIrq, detentVars, neoVars, entryI>>

\* (a reset that keeps the pending state)
getButtonState_buttonState_kept ==
  /\ pc = "getButtonState_buttonState"
  /\ pc' = "getButtonState_interrupts"
  /\ UNCHANGED <<rotencVars, buttonVars, oldState, regVars, PIND,
                 PCIFR, millis, SREG_I, local, args, ret, nIrq, detentVars, clickVars, neoVars, entryI>>

\* buttonState = BUTTON_NONE (156)
getButtonState_buttonState ==
  /\ pc = "getButtonState_buttonState"
  /\ buttonState' = BUTTON_NONE
  /\ pc' = "getButtonState_interrupts"
  /\ UNCHANGED <<rotencVars, oldButtonState, buttonPressTime, oldState, regVars, PIND,
                 PCIFR, millis, SREG_I, local, args, ret, nIrq, detentVars, clickVars, neoVars, entryI>>

\* interrupts(); return (tempState) (157-158)
getButtonState_interrupts ==
  /\ pc = "getButtonState_interrupts"
  /\ SREG_I' = TRUE
  /\ ret' = [op |-> "getButtonState", val |-> local.tempState]
  /\ pc' = "idle"
  /\ local' = NoLocal
  /\ UNCHANGED <<rotencVars, buttonVars, oldState, regVars, PIND, PCIFR, millis,
                 args, nIrq, detentVars, clickVars, neoVars, entryI>>

(***************************************************************************)
(* RotEnc::begin (rotenc.cpp 32-47)                                        *)
(***************************************************************************)
\* lines A and B to input mode, pull-ups on, noInterrupts() (34-40)
begin ==
  /\ pc = "idle"
  /\ entryI' = SREG_I
  /\ DDRD' = bitClear(bitClear(DDRD, HW_ROTENC_A_BIT), HW_ROTENC_B_BIT)
  /\ PORTD' = bitSet(bitSet(PORTD, HW_ROTENC_A_BIT), HW_ROTENC_B_BIT)
  /\ SREG_I' = FALSE
  /\ pc' = "begin_PCMSK"
  /\ UNCHANGED <<rotencVars, buttonVars, oldState, PCMSK2, PCICR, PIND, PCIFR, millis,
                 local, args, ret, nIrq, detentVars, clickVars, neoVars>>

\* the pin change interrupt registers (41-45); writing a one to the flag
\* bit of PCIFR clears the flag
begin_PCMSK ==
  /\ pc = "begin_PCMSK"
  /\ PCMSK2' = bitSet(bitSet(bitSet(PCMSK2, HW_ROTENC_A_INT), HW_ROTENC_B_INT),
                      HW_ROTENC_BTN_INT)
  /\ PCIFR' = bitClear(PCIFR, HW_ROTENC_PCIFR)
  /\ PCICR' = bitSet(PCICR, HW_ROTENC_PCICR)
  /\ pc' = "begin_interrupts"
  /\ UNCHANGED <<rotencVars, buttonVars, oldState, DDRD, PORTD, PIND, millis, SREG_I,
                 local, args, ret, nIrq, detentVars, clickVars, neoVars, entryI>>

\* interrupts() (46)
begin_interrupts ==
  /\ pc = "begin_interrupts"
  /\ SREG_I' = TRUE
  /\ pc' = "idle"
  /\ UNCHANGED <<rotencVars, buttonVars, oldState, regVars, PIND, PCIFR, millis,
                 local, args, ret, nIrq, detentVars, clickVars, neoVars, entryI>>

(***************************************************************************)
(* Neopixel (neopixel.cpp 14-31, neopixel.h 56-128)                        *)
(***************************************************************************)
\* Neopixel::begin (neopixel.cpp 14-17)
Neopixel_begin ==
  /\ pc = "idle"
  /\ entryI' = SREG_I
  /\ DDRB' = bitSet(DDRB, HW_NEOPIXEL_BIT)
  /\ UNCHANGED <<rotencVars, buttonVars, oldState, regVars, PIND, PCIFR, millis, SREG_I,
                 callVars, nIrq, detentVars, clickVars, sent, latch, neo>>

\* sendBit (neopixel.h 56-98): the line high for the first time of the pulse
\* and low for the second, the times of a 1 bit if bitValue, of a 0 bit if not
sendBit(bitValue) ==
  IF bitValue # 0
  THEN [high |-> HW_NEOPIXEL_T1H, low |-> HW_NEOPIXEL_T1L]
  ELSE [high |-> HW_NEOPIXEL_T0H, low |-> HW_NEOPIXEL_T0L]

\* (the bytes sent in the order red, green, blue)
RgbByte_rgb(n, r, g, b) == CASE n = 0 -> r [] n = 1 -> g [] OTHER -> b

\* the byte sendRgb sends as its n-th (neopixel.h 118-120)
RgbByte(n, r, g, b) == CASE n = 0 -> g [] n = 1 -> r [] OTHER -> b

\* (a call that leaves the interrupts on)
setUniformColour_interruptsOn(r, g, b) ==
  /\ pc = "idle"
  /\ entryI' = SREG_I
  /\ sent' = <<>>
  /\ latch' = 0
  /\ neo' = [r |-> r, g |-> g, b |-> b, i |-> 0, byte |-> 0, bit |-> 0,
             input |-> RgbByte(0, r, g, b)]
  /\ pc' = IF 0 < HW_NEOPIXEL_NUMBER THEN "sendByte" ELSE "show"
  /\ UNCHANGED <<rotencVars, buttonVars, oldState, regVars, PIND, PCIFR, millis, SREG_I,
                 local, args, ret, nIrq, detentVars, clickVars, DDRB>>

\* the call, noInterrupts(), i = 0 and the loop test (neopixel.cpp 23-25),
\* sendRgb's first sendByte entered (neopixel.h 118, 106)
setUniformColour(r, g, b) ==
  /\ pc = "idle"
  /\ entryI' = SREG_I
  /\ SREG_I' = FALSE
  /\ sent' = <<>>
  /\ latch' = 0
  /\ neo' = [r |-> r, g |-> g, b |-> b, i |-> 0, byte |-> 0, bit |-> 0,
             input |-> RgbByte(0, r, g, b)]
  /\ pc' = IF 0 < HW_NEOPIXEL_NUMBER THEN "sendByte" ELSE "show"
  /\ UNCHANGED <<rotencVars, buttonVars, oldState, regVars, PIND, PCIFR, millis,
                 local, args, ret, nIrq, detentVars, clickVars, DDRB>>

\* one round of sendByte's loop (neopixel.h 106-109): sendBit(bitRead(input,
\* 7)), input <<= 1, bit++; after the eighth bit the next sendByte of sendRgb
\* (118-120), after the third byte i++ and the loop test (neopixel.cpp 25)
sendByte ==
  /\ pc = "sendByte"
  /\ sent' = Append(sent, sendBit(bitRead(neo.input, 7)))
  /\ IF neo.bit + 1 < 8
     THEN /\ neo' = [neo EXCEPT !.bit = neo.bit + 1,
                                !.input = (neo.input * 2) % Uint8Mod]
          /\ pc' = "sendByte"
     ELSE IF neo.byte + 1 < 3
     THEN /\ neo' = [neo EXCEPT !.bit = 0, !.byte = neo.byte + 1,
                                !.input = RgbByte(neo.byte + 1, neo.r, neo.g, neo.b)]
          /\ pc' = "sendByte"
     ELSE /\ neo' = [neo EXCEPT !.bit = 0, !.byte = 0, !.i = neo.i + 1,
                                !.input = RgbByte(0, neo.r, neo.g, neo.b)]
          /\ pc' = IF neo.i + 1 < HW_NEOPIXEL_NUMBER THEN "sendByte" ELSE "show"
  /\ UNCHANGED <<rotencVars, buttonVars, oldState, regVars, PIND, PCIFR, millis, SREG_I,
                 local, args, ret, nIrq, detentVars, clickVars, DDRB, latch, entryI>>

\* show (neopixel.cpp 28, neopixel.h 124-128): delayMicroseconds(
\* HW_NEOPIXEL_RES / nanosecPerMiscrosec + 1); latch is the wait in microseconds
show ==
  /\ pc = "show"
  /\ latch' = TruncDiv(HW_NEOPIXEL_RES, nanosecPerMiscrosec) + 1
  /\ pc' = "setUniformColour_noInterrupts"
  /\ UNCHANGED <<rotencVars, buttonVars, oldState, regVars, PIND, PCIFR, millis, SREG_I,
                 local, args, ret, nIrq, detentVars, clickVars, DDRB, sent, neo, entryI>>

\* noInterrupts() and the return (neopixel.cpp 29-31)
setUniformColour_noInterrupts ==
  /\ pc = "setUniformColour_noInterrupts"
  /\ SREG_I' = FALSE
  /\ ret' = [op |-> "setUniformColour", val |-> 0]
  /\ neo' = NoNeo
  /\ pc' = "idle"
  /\ UNCHANGED <<rotencVars, buttonVars, oldState, regVars, PIND, PCIFR, millis,
                 local, args, nIrq, detentVars, clickVars, DDRB, sent, latch, entryI>>

(***************************************************************************)
(* The environment: the pins and the clock                                 *)
(***************************************************************************)
\* a level change of a pin sets the pin change flag when the pin is unmasked
PinChange(port, flags, b, mask) ==
  <<port + (IF bitRead(port, b) = 0 THEN 1 ELSE -1) * (2 ^ b),
    IF bitRead(PCMSK2, mask) = 1 THEN bitSet(flags, HW_ROTENC_PCIFR) ELSE flags>>

\* line A or line B changes level
EncoderLines == {<<HW_ROTENC_A_BIT, HW_ROTENC_A_INT>>, <<HW_ROTENC_B_BIT, HW_ROTENC_B_INT>>}

EncoderLineChange(lines, budget) ==
  /\ nIrq < budget
  /\ \E l \in lines :
       /\ PIND' = PinChange(PIND, PCIFR, l[1], l[2])[1]
       /\ PCIFR' = PinChange(PIND, PCIFR, l[1], l[2])[2]
  /\ UNCHANGED <<rotencVars, buttonVars, oldState, regVars, millis, SREG_I, callVars,
                 nIrq, detentVars, clickVars, neoVars, entryI>>

\* ... between two calls of the foreground
EncoderLineChangeIdle(lines, budget) == pc = "idle" /\ EncoderLineChange(lines, budget)

\* The shaft turns by one legal quadrature transition, forward along
\* 00 -> 10 -> 11 -> 01 -> 00 (samples 0, 2, 3, 1) or backward, once the
\* transition before it was served; HW_ROTENC_CYCLES_PER_DETENT transitions in
\* one direction are one detent step, which moves the position the detents are
\* counted at by one, clamped or wrapped around the range that was set.
NextSample(sample, dir) ==
  IF dir = 1
  THEN CASE sample = 0 -> 2 [] sample = 2 -> 3 [] sample = 3 -> 1 [] OTHER -> 0
  ELSE CASE sample = 0 -> 1 [] sample = 1 -> 3 [] sample = 3 -> 2 [] OTHER -> 0

DetentStep(position, dir) ==
  IF args.wrap
  THEN IF position + dir > args.maxLimit THEN args.minLimit
       ELSE IF position + dir < args.minLimit THEN args.maxLimit
       ELSE position + dir
  ELSE Clamped(position + dir, args.minLimit, args.maxLimit)

\* setCounter between its noInterrupts() and its interrupts()
SetCounterCritical ==
  {"setCounter_counter", "setCounter_counterMinLimit", "setCounter_counterMaxLimit",
   "setCounter_counterWrap", "setCounter_interrupts"}

QuadratureStep ==
  /\ nIrq < MaxIrq
  /\ args.set
  /\ pc \notin SetCounterCritical
  /\ bitRead(PCMSK2, HW_ROTENC_A_INT) = 1 /\ bitRead(PCMSK2, HW_ROTENC_B_INT) = 1
  /\ bitRead(PCICR, HW_ROTENC_PCICR) = 1
  /\ bitRead(PCIFR, HW_ROTENC_PCIFR) = 0
  /\ EncoderSample(PIND) = oldState % 4
  /\ \E dir \in {-1, 1} :
       /\ detentSub * dir >= 0
       /\ \E l \in EncoderLines :
            /\ EncoderSample(PinChange(PIND, PCIFR, l[1], l[2])[1])
                 = NextSample(EncoderSample(PIND), dir)
            /\ PIND' = PinChange(PIND, PCIFR, l[1], l[2])[1]
            /\ PCIFR' = PinChange(PIND, PCIFR, l[1], l[2])[2]
       /\ IF detentSub + dir \in {-HW_ROTENC_CYCLES_PER_DETENT, HW_ROTENC_CYCLES_PER_DETENT}
          THEN /\ detentSub' = 0
               /\ detentExpect' = DetentStep(detentExpect, dir)
          ELSE /\ detentSub' = detentSub + dir
               /\ UNCHANGED detentExpect
  /\ UNCHANGED <<rotencVars, buttonVars, oldState, regVars, millis, SREG_I, callVars, nIrq,
                 clickVars, neoVars, entryI>>

\* the button is pressed or released
ButtonLineChange ==
  /\ PIND' = PinChange(PIND, PCIFR, HW_ROTENC_BTN_BIT, HW_ROTENC_BTN_INT)[1]
  /\ PCIFR' = PinChange(PIND, PCIFR, HW_ROTENC_BTN_BIT, HW_ROTENC_BTN_INT)[2]
  /\ UNCHANGED <<rotencVars, buttonVars, oldState, regVars, millis, SREG_I, callVars,
                 nIrq, detentVars, clickVars, neoVars, entryI>>

\* time passes (millis() is a uint32_t and wraps around)
Tick ==
  /\ millis' \in TimePoints \ {millis}
  /\ UNCHANGED <<rotencVars, buttonVars, oldState, regVars, PIND, PCIFR, SREG_I,
                 callVars, nIrq, detentVars, clickVars, neoVars, entryI>>

(***************************************************************************)
(* Specifications                                                          *)
(***************************************************************************)
SetCounterCall(values, limits) ==
  \E v \in values, l \in limits, w \in BOOLEAN : setCounter(v, l[1], l[2], w)

SetCounterSteps ==
  \/ setCounter_counter
  \/ setCounter_counterMinLimit
  \/ setCounter_counterMaxLimit
  \/ setCounter_counterWrap
  \/ setCounter_interrupts

GetCounterSteps ==
  \/ getCounter
  \/ getCounter_retVal
  \/ getCounter_interrupts

GetButtonStateSteps ==
  \/ getButtonState
  \/ getButtonState_tempState
  \/ getButtonState_buttonState
  \/ getButtonState_interrupts

BeginSteps ==
  \/ begin
  \/ begin_PCMSK
  \/ begin_interrupts

\* the colours setUniformColour is called with: all bits clear, and three bytes that differ from each other and from their mirror images
ColourSamples == {<<0, 0, 0>>, <<170, 1, 128>>}

SetUniformColourCall(colours) == \E c \in colours : setUniformColour(c[1], c[2], c[3])

SetUniformColourSteps ==
  \/ sendByte
  \/ show
  \/ setUniformColour_noInterrupts

\* the whole program and its environment
Next ==
  \/ Neopixel_begin
  \/ SetUniformColourCall(ColourSamples)
  \/ SetUniformColourSteps
  \/ SetCounterCall(ValueSamples, LimitPairs)
  \/ SetCounterSteps
  \/ GetCounterSteps
  \/ GetButtonStateSteps
  \/ BeginSteps
  \/ ISR
  \/ EncoderLineChange(EncoderLines, MaxIrq)
  \/ ButtonLineChange
  \/ Tick

Spec == Init /\ [][Next]_vars

\* setCounter with the whole range of arguments, the button left alone
NextRange ==
  \/ SetCounterCall(ValueSamples, LimitPairs)
  \/ SetCounterSteps
  \/ GetCounterSteps
  \/ BeginSteps
  \/ ISR
  \/ EncoderLineChangeIdle({<<HW_ROTENC_A_BIT, HW_ROTENC_A_INT>>}, MaxIrqRange)

SpecRange == InitLinesHigh /\ [][NextRange]_vars

\* the counter followed along its range, the button left alone
NextWalk ==
  \/ SetCounterCall(NarrowValueSamples, NarrowLimitPairs)
  \/ SetCounterSteps
  \/ BeginSteps
  \/ ISR
  \/ EncoderLineChange(EncoderLines, MaxIrq)

SpecWalk == InitLinesHigh /\ [][NextWalk]_vars

\* the button and the clock, the counter as constructed
NextButton ==
  \/ GetButtonStateSteps
  \/ BeginSteps
  \/ ISR
  \/ EncoderLineChange(EncoderLines, MaxIrqButton)
  \/ ButtonLineChange
  \/ Tick

SpecButton == Init /\ [][NextButton]_vars

\* the shaft turned by whole detents, the counter set with the shaft at rest
\* in a detent, the range inside the limit range
SetCounterCallAtDetent ==
  /\ detentSub = 0
  /\ bitRead(PCIFR, HW_ROTENC_PCIFR) = 0
  /\ SetCounterCall(NarrowValueSamples, {<<-1, 1>>, <<1, -1>>})

\* begin() called once, before the shaft turns: a second call would clear the
\* flag of a transition not served yet
BeginOnce ==
  \/ bitRead(PCICR, HW_ROTENC_PCICR) = 0 /\ begin
  \/ begin_PCMSK
  \/ begin_interrupts

NextDetent ==
  \/ SetCounterCallAtDetent
  \/ SetCounterSteps
  \/ GetCounterSteps
  \/ BeginOnce
  \/ ISR
  \/ QuadratureStep

SpecDetent == InitDetent /\ [][NextDetent]_vars

\* the strip driven, the encoder's button pressed and released meanwhile
NextNeopixel ==
  \/ Neopixel_begin
  \/ SetUniformColourCall(ColourSamples)
  \/ SetUniformColourSteps
  \/ BeginOnce
  \/ ISR
  \/ ButtonLineChange

SpecNeopixel == InitLinesHigh /\ [][NextNeopixel]_vars

\* the lines A and B changing freely, also both between two invocations,
\* around a counter set once: below, inside and above a range around zero
GlitchValueSamples == {INT16_T_MIN, 0, INT16_T_MAX}

SetCounterOnce ==
  /\ ~args.set
  /\ SetCounterCall(GlitchValueSamples, {<<-1, 1>>, <<1, -1>>})

NextGlitch ==
  \/ SetCounterOnce
  \/ SetCounterSteps
  \/ BeginOnce
  \/ ISR
  \/ EncoderLineChange(EncoderLines, MaxIrq)

SpecGlitch == InitLinesHigh /\ [][NextGlitch]_vars

\* the methods of RotEnc called after the strip was driven, the pins at rest
NextLamp ==
  \/ SetUniformColourCall({<<0, 0, 0>>})
  \/ SetUniformColourSteps
  \/ SetCounterCall({0}, {<<-1, 1>>, <<1, -1>>})
  \/ SetCounterSteps
  \/ GetCounterSteps
  \/ GetButtonStateSteps
  \/ BeginSteps

SpecLamp == InitLinesHigh /\ [][NextLamp]_vars

TypeOK ==
  /\ InInt16(counter) /\ InInt16(counterMinLimit) /\ InInt16(counterMaxLimit)
  /\ counterWrap \in BOOLEAN
  /\ buttonState \in ButtonState
  /\ oldState \in 0..15
  /\ oldButtonState \in BOOLEAN
  /\ buttonPressTime \in TimePoints
  /\ PIND \in PinLevels
  /\ SREG_I \in BOOLEAN
  /\ millis \in TimePoints
  /\ nIrq \in 0..MaxIrq
  /\ clickPending \in ButtonState /\ clickExpected \in ButtonState
  /\ DDRB \in 0..(Uint8Mod - 1) /\ latch \in Nat /\ Len(sent) <= HW_NEOPIXEL_NUMBER * 24
  /\ entryI \in BOOLEAN

(***************************************************************************)
(* Properties                                                              *)
(***************************************************************************)
\* a limit clamped into the safe sub-range
SafeLimit(x) == Clamped(x, minLimitRange, maxLimitRange)

\* the last completed call is a setCounter that returned true, and no
\* interrupt was served since
JustSet ==
  /\ pc = "idle"
  /\ ret.op = "setCounter" /\ ret.val = TRUE
  /\ nIrq = 0

\* C1: between two calls the counter lies within its limits:
\* counterMinLimit <= counter <= counterMaxLimit.
C1_CounterWithinLimits ==
  pc = "idle" => (counterMinLimit <= counter /\ counter <= counterMaxLimit)

\* C2: a setCounter call with minLimit >= maxLimit returns false and leaves
\* counter, both limits, the wrap flag and the interrupt enable flag as they
\* were, whatever the state and the other arguments: no call with
\* minLimit >= maxLimit passes the range check, and a call that returns from
\* the range check (a step of the idle foreground that ends idle with a new
\* return value) returns false and changes none of them.
C2_InvalidRangeRejected ==
  /\ [](args.set => args.minLimit < args.maxLimit)
  /\ [][(pc = "idle" /\ pc' = "idle" /\ ret' # ret)
         => /\ ret' = [op |-> "setCounter", val |-> FALSE]
            /\ UNCHANGED <<counter, counterMinLimit, counterMaxLimit, counterWrap,
                           buttonState, SREG_I>>]_vars

\* a rejected call made after an accepted one and an interrupt
C2_Witness ==
  /\ pc = "idle"
  /\ ret.op = "setCounter" /\ ret.val = FALSE
  /\ args.set /\ nIrq > 0 /\ counterWrap
  /\ counter # 0

\* C3: after a successful setCounter both limits are clamped into
\* [minLimitRange, maxLimitRange], and counter and the limits hold the exact
\* products by HW_ROTENC_CYCLES_PER_DETENT, inside the range these span.
C3_ScaledWithoutOverflow ==
  JustSet =>
    LET lo == SafeLimit(args.minLimit)
        hi == SafeLimit(args.maxLimit)
    IN  /\ counterMinLimit = lo * HW_ROTENC_CYCLES_PER_DETENT
        /\ counterMaxLimit = hi * HW_ROTENC_CYCLES_PER_DETENT
        /\ counter = Clamped(args.value, lo, hi) * HW_ROTENC_CYCLES_PER_DETENT
        /\ minLimitRange * HW_ROTENC_CYCLES_PER_DETENT <= counter
        /\ counter <= maxLimitRange * HW_ROTENC_CYCLES_PER_DETENT

\* C4: with limits inside the limit range, a getCounter that follows a
\* successful setCounter(v, minLimit, maxLimit, wrap) with no interrupt in
\* between returns v clamped into [minLimit, maxLimit].
C4_RoundTrip ==
  ( /\ pc = "idle"
    /\ ret.op = "getCounter"
    /\ nIrq = 0
    /\ args.set
    /\ minLimitRange <= args.minLimit /\ args.maxLimit <= maxLimitRange )
  => ret.val = Clamped(args.value, args.minLimit, args.maxLimit)

\* getCounter returned the lower limit for a value below it, and the upper
\* limit for a value above it
C4_Witness ==
  /\ pc = "idle" /\ ret.op = "getCounter" /\ nIrq = 0 /\ args.set
  /\ minLimitRange <= args.minLimit /\ args.maxLimit <= maxLimitRange
  /\ args.value < args.minLimit
  /\ ret.val = args.minLimit

\* C5: one invocation of encoderInterruptHandler: at counterMaxLimit with
\* increment +1 the counter becomes counterMinLimit when wrap is set and stays
\* otherwise; at counterMinLimit with increment -1 it becomes counterMaxLimit
\* when wrap is set and stays otherwise; in every other case it changes by
\* exactly the increment.
C5_LimitRule ==
  [][ISR =>
       LET increment == Increment(NextOldState(oldState, PIND))
       IN  IF counter = counterMaxLimit /\ increment = 1
           THEN counter' = (IF counterWrap THEN counterMinLimit ELSE counterMaxLimit)
           ELSE IF counter = counterMinLimit /\ increment = -1
           THEN counter' = (IF counterWrap THEN counterMaxLimit ELSE counterMinLimit)
           ELSE counter' = counter + increment]_vars

\* C6: after a successful setCounter(v, min, max, wrap) and any sequence of
\* whole detent steps, N forward and M backward in any order, each transition
\* served, getCounter returns the position v + (N - M) taken step by step,
\* clamped into [min, max] when wrap is false and wrapped around [min, max]
\* when it is true.
C6_DetentCount ==
  ( /\ pc = "getCounter_interrupts"
    /\ args.set
    /\ detentSub = 0
    /\ bitRead(PCIFR, HW_ROTENC_PCIFR) = 0 )
  => local.retVal = detentExpect

\* C10: setCounter replaces counter, the limits and the wrap flag atomically
\* for the interrupt: the handlers never run between noInterrupts() and
\* interrupts() of setCounter, and never find counter outside the limits.
C10_SetCounterAtomic ==
  [][ISR => /\ pc \notin SetCounterCritical
            /\ counterMinLimit <= counter /\ counter <= counterMaxLimit]_vars

\* the button's level was low at the last invocation and is high at this one
ReleaseEdge == bitRead(PIND, HW_ROTENC_BTN_BIT) = 1 /\ ~oldButtonState

\* C7: on a release edge, with holdTime = release time - press time, a
\* holdTime <= HW_BUTTON_SHORT_CLICK_MIN_TIME leaves the pending state,
\* HW_BUTTON_SHORT_CLICK_MIN_TIME < holdTime <= HW_BUTTON_LONG_CLICK_MIN_TIME
\* sets it to BUTTON_SHORT_CLICK and holdTime > HW_BUTTON_LONG_CLICK_MIN_TIME
\* sets it to BUTTON_LONG_CLICK; a falling edge alone and an invocation with
\* no change of the button's level leave the pending state.
C7_ClickClassification ==
  [][ISR =>
       LET holdTime == Sub32(millis, buttonPressTime)
       IN  IF ~ReleaseEdge THEN buttonState' = buttonState
           ELSE IF ~Gt32(holdTime, HW_BUTTON_SHORT_CLICK_MIN_TIME)
                THEN buttonState' = buttonState
           ELSE IF ~Gt32(holdTime, HW_BUTTON_LONG_CLICK_MIN_TIME)
                THEN buttonState' = BUTTON_SHORT_CLICK
           ELSE buttonState' = BUTTON_LONG_CLICK]_vars

\* a release held for exactly the long threshold was served and is pending as
\* a short click
C7_Witness ==
  /\ nIrq > 0
  /\ oldButtonState /\ bitRead(PIND, HW_ROTENC_BTN_BIT) = 1
  /\ bitRead(PCIFR, HW_ROTENC_PCIFR) = 0
  /\ HoldTime(millis, buttonPressTime) = Uint32(HW_BUTTON_LONG_CLICK_MIN_TIME)
  /\ buttonState = BUTTON_SHORT_CLICK

\* getButtonState between its noInterrupts() and its interrupts()
GetButtonStateCritical ==
  {"getButtonState_tempState", "getButtonState_buttonState", "getButtonState_interrupts"}

\* C8: getButtonState is read-and-clear: it returns the pending state and
\* leaves BUTTON_NONE pending, so the click of one qualifying press and
\* release is returned by the first call after it, once, and a call with no
\* new release before it returns BUTTON_NONE.
C8_ReadAndClear ==
  /\ pc \notin GetButtonStateCritical => buttonState = clickPending
  /\ pc = "getButtonState_interrupts"
       => (buttonState = BUTTON_NONE /\ local.tempState = clickExpected)
  /\ (pc = "idle" /\ ret.op = "getButtonState") => ret.val = clickExpected

\* a call returned a click and nothing is pending after it
C8_Witness ==
  /\ pc = "idle"
  /\ ret.op = "getButtonState" /\ ret.val = BUTTON_SHORT_CLICK
  /\ buttonState = BUTTON_NONE
  /\ clickPending = BUTTON_NONE

\* C9: no click is lost to a race: the interrupt handler never runs between
\* getButtonState's read of the pending state and its reset, and a pending
\* click is cleared only by the reset of a call that returns this click.
C9_NoClickLost ==
  /\ [][ISR => pc \notin GetButtonStateCritical]_vars
  /\ [][(buttonState # BUTTON_NONE /\ buttonState' = BUTTON_NONE)
         => /\ pc = "getButtonState_buttonState"
            /\ local.tempState = buttonState]_vars
  /\ [][pc = "getButtonState_interrupts" /\ pc' = "idle"
         => ret'.val = local.tempState]_vars

\* a release waits to be served while a call that read a click resets it
C9_Witness ==
  /\ pc = "getButtonState_buttonState"
  /\ local.tempState # BUTTON_NONE
  /\ bitRead(PCIFR, HW_ROTENC_PCIFR) = 1 /\ bitRead(PCICR, HW_ROTENC_PCICR) = 1
  /\ ~SREG_I
  /\ ReleaseEdge
  /\ Gt32(HoldTime(millis, buttonPressTime), HW_BUTTON_SHORT_CLICK_MIN_TIME)

\* the pulse of a bit: a 1 bit is T1H high and T1L low, a 0 bit T0H and T0L
Pulse(bitValue) ==
  IF bitValue = 1
  THEN [high |-> HW_NEOPIXEL_T1H, low |-> HW_NEOPIXEL_T1L]
  ELSE [high |-> HW_NEOPIXEL_T0H, low |-> HW_NEOPIXEL_T0L]

\* HW_NEOPIXEL_NUMBER times the bytes g, r, b, each most-significant bit first
Frame(r, g, b) ==
  [k \in 1..(HW_NEOPIXEL_NUMBER * 24) |->
     LET byte == CASE ((k - 1) % 24) \div 8 = 0 -> g
                   [] ((k - 1) % 24) \div 8 = 1 -> r
                   [] OTHER -> b
     IN  Pulse((byte \div (2 ^ (7 - ((k - 1) % 8)))) % 2)]

C12_InterruptsReenabled ==
  [][(pc = "setUniformColour_noInterrupts" /\ pc' = "idle" /\ entryI) => SREG_I']_vars

\* setUniformColour from its noInterrupts() to its return
NeopixelCritical == {"sendByte", "show", "setUniformColour_noInterrupts"}

\* C13: during setUniformColour interrupts stay disabled from before the
\* first bit until the latch wait has finished: the interrupt handlers never
\* run between two bits of the frame nor between the last bit and the end of
\* the latch wait.
C13_FrameUninterrupted ==
  /\ [](pc \in NeopixelCritical => ~SREG_I)
  /\ [][ISR => pc \notin NeopixelCritical]_vars

\* a pin change is flagged and enabled while the frame is half sent
C13_Witness ==
  /\ pc = "sendByte"
  /\ Len(sent) = HW_NEOPIXEL_NUMBER * 12
  /\ bitRead(PCIFR, HW_ROTENC_PCIFR) = 1 /\ bitRead(PCICR, HW_ROTENC_PCICR) = 1
  /\ ~SREG_I

\* C14: after begin() the three encoder pins (line A, line B, the button)
\* are inputs with the pull-up enabled, the pin change mask bit of each of the
\* three is set and the pin change interrupt of their port is enabled.
C14_BeginConfigures ==
  pc = "begin_interrupts"
  => /\ \A pin \in {HW_ROTENC_A_BIT, HW_ROTENC_B_BIT, HW_ROTENC_BTN_BIT} :
          bitRead(DDRD, pin) = 0 /\ bitRead(PORTD, pin) = 1
     /\ \A int \in {HW_ROTENC_A_INT, HW_ROTENC_B_INT, HW_ROTENC_BTN_INT} :
          bitRead(PCMSK2, int) = 1
     /\ bitRead(PCICR, HW_ROTENC_PCICR) = 1

\* the samples differ in exactly one of their two bits
OneBitDiffers(p, c) == (p % 2 # c % 2) # (p \div 2 # c \div 2)

\* the increment the table gives for the previous sample p and the current c
TableIncrement(p, c) == Increment(p * 4 + c)

\* C15: the table, indexed by (previous sample << 2) | current sample, gives
\* a nonzero increment exactly when the two samples differ in exactly one
\* bit, is antisymmetric, gives +1 along 00 -> 10 -> 11 -> 01 -> 00 and -1
\* along the reverse cycle; so an invocation with an invalid or no-change
\* transition leaves counter unchanged in every state, also at a limit.
C15_Table ==
  /\ [](/\ \A p \in 0..3, c \in 0..3 :
             /\ TableIncrement(p, c) \in {-1, 0, 1}
             /\ (TableIncrement(p, c) # 0) <=> OneBitDiffers(p, c)
             /\ TableIncrement(p, c) = -TableIncrement(c, p)
        /\ \A t \in {<<0, 2>>, <<2, 3>>, <<3, 1>>, <<1, 0>>} :
             TableIncrement(t[1], t[2]) = 1 /\ TableIncrement(t[2], t[1]) = -1)
  /\ [][(ISR /\ ~OneBitDiffers(oldState % 4, EncoderSample(PIND)))
         => counter' = counter]_vars

\* an invocation found both lines changed (01 -> 10) with the counter at its
\* upper limit, and the counter is still there
C15_Witness ==
  /\ nIrq > 0
  /\ oldState = 6
  /\ bitRead(PCIFR, HW_ROTENC_PCIFR) = 0
  /\ args.set /\ counterMinLimit < counterMaxLimit
  /\ counter = counterMaxLimit

\* C16: contact bounce is absorbed: in every counter state, also at a limit
\* and with wrap on or off, a legal single-step transition from s to t
\* followed at once by the transition back from t to s leaves counter at its
\* value before the pair.
C16_BounceAbsorbed ==
  [][(/\ ISR
      /\ OneBitDiffers(oldState % 4, EncoderSample(PIND))
      /\ counterMinLimit < counterMaxLimit
      /\ counterMinLimit <= counter /\ counter <= counterMaxLimit)
     => \A back \in HandlerCounter(counter', EncoderSample(PIND) * 4 + (oldState % 4)) :
          back = counter]_vars

\* C17: one encoderInterruptHandler invocation preserves the range: with
\* counterMinLimit <= counter <= counterMaxLimit and counterMinLimit <
\* counterMaxLimit on entry, counter is within the limits after every
\* assignment to it inside the handler, and the wrap or clamp branch is taken
\* only with counter equal to the limit on entry.
C17_HandlerPreservesRange ==
  [][(/\ ISR
      /\ counterMinLimit < counterMaxLimit
      /\ counterMinLimit <= counter /\ counter <= counterMaxLimit)
     => LET increment == Increment(NextOldState(oldState, PIND))
            atMax == AtMaxLimit(counter, increment)
            atMin == AtMinLimit(atMax[1], atMax[2])
            InRange(c) == counterMinLimit <= c /\ c <= counterMaxLimit
        IN  /\ InRange(atMax[1]) /\ InRange(atMin[1]) /\ InRange(counter')
            /\ atMax # <<counter, increment>> => counter = counterMaxLimit
            /\ atMin # atMax => counter = counterMinLimit]_vars

\* the one invocation since setCounter put the counter at its upper limit
\* wrapped it to the lower limit
C17_Witness ==
  /\ pc = "idle"
  /\ args.set /\ args.value = INT16_T_MAX /\ args.wrap
  /\ nIrq = 1
  /\ counterWrap /\ counterMinLimit < counterMaxLimit
  /\ counter = counterMinLimit

\* C18: the two handlers of the shared interrupt do not disturb each other:
\* an event in which only the button's line changed (the encoder sample is the
\* previous sample) leaves counter, and an event in which only an encoder
\* line changed (the button's level is the remembered level) leaves the
\* pending button state, the press time and the remembered level.
C18_DecodersIndependent ==
  /\ [][(ISR /\ EncoderSample(PIND) = oldState % 4) => counter' = counter]_vars
  /\ [][(ISR /\ (bitRead(PIND, HW_ROTENC_BTN_BIT) = 1) = oldButtonState)
         => UNCHANGED <<buttonState, buttonPressTime, oldButtonState>>]_vars

\* a press was recorded by one invocation, and the next one, entered for a
\* change of an encoder line with the button still down, left it as recorded
C18_Witness ==
  /\ nIrq = 2
  /\ ~oldButtonState /\ bitRead(PIND, HW_ROTENC_BTN_BIT) = 0
  /\ bitRead(PCIFR, HW_ROTENC_PCIFR) = 0
  /\ oldState % 4 # oldState \div 4
  /\ buttonPressTime = Uint32(HW_BUTTON_SHORT_CLICK_MIN_TIME)
  /\ millis = Uint32(HW_BUTTON_LONG_CLICK_MIN_TIME)
  /\ buttonState = BUTTON_NONE

\* C19: after construction and before any setCounter the counter is 0, wrap
\* is off and the limits are those setCounter(0, minLimitRange, maxLimitRange,
\* false) stores: counterMinLimit = minLimitRange * HW_ROTENC_CYCLES_PER_DETENT
\* and counterMaxLimit = maxLimitRange * HW_ROTENC_CYCLES_PER_DETENT.
C19_ConstructedLimits ==
  ~args.set
  => /\ counterMinLimit = minLimitRange * HW_ROTENC_CYCLES_PER_DETENT
     /\ counterMaxLimit = maxLimitRange * HW_ROTENC_CYCLES_PER_DETENT
     /\ ~counterWrap
     /\ nIrq = 0 => counter = 0

\* C20: getCounter, getButtonState, a successful setCounter and begin each
\* return with interrupts enabled, whatever the interrupt flag was on entry.
C20_ReturnsWithInterruptsOn ==
  [][(/\ pc \in {"getCounter_interrupts", "getButtonState_interrupts",
                 "setCounter_interrupts", "begin_interrupts"}
      /\ pc' = "idle")
     => SREG_I']_vars

\* getCounter was entered with interrupts disabled and returned with them
\* enabled
C20_Witness ==
  /\ pc = "idle"
  /\ ret.op = "getCounter"
  /\ ~entryI
  /\ SREG_I

====
